---------------------------- MODULE Spec2Model ----------------------------
(***************************************************************************)
(* Order / inventory transactional core of the backend.                    *)
(*                                                                         *)
(*   SpecOrder : the Order aggregate alone (domain/entities/order.py):     *)
(*               one in-memory Order and the calls made on it.             *)
(*   Spec      : OrderService and the inventory routes running as          *)
(*               request-scoped database sessions (get_session) over the   *)
(*               committed rows, with the requests' steps interleaved.     *)
(***************************************************************************)
EXTENDS Integers, Sequences, FiniteSets, TLC

(***************************************************************************)
(* Bounds of the model.                                                    *)
(***************************************************************************)
MaxClock == 6
MaxReq == 2
MaxCalls == 3
InitialStock == 3
MaxItems == 2
MaxQty == 2
MaxOnHand == 4
MaxFailures == 7
MaxMinutes == 31
MaxLogins == 7
MaxLevel == 2
NumItemIds == 3

(***************************************************************************)
(* OrderStatus (order.py:17-42).                                           *)
(***************************************************************************)
OrderStatus ==
    {"draft", "pending", "confirmed", "processing",
     "shipped", "delivered", "cancelled", "refunded"}

\* can_modify with CONFIRMED taken for a status that may still be edited.
can_modify_confirmed(status) == status \in {"draft", "pending", "confirmed"}

can_modify(status) == status \in {"draft", "pending"}

\* can_cancel with SHIPPED added to the cancellable statuses.
can_cancel_shipped(status) ==
    status \in {"draft", "pending", "confirmed", "processing", "shipped"}

can_cancel(status) == status \in {"draft", "pending", "confirmed", "processing"}

\* None, for an Optional[datetime] that is not set.
NoTime == 0

(***************************************************************************)
(* Results of a call: the entity as the call leaves it, and the error it   *)
(* raised ("" when it returned).  Every error of the entities is a Python  *)
(* ValueError; the kind is the one its message states.                     *)
(***************************************************************************)
Returned(e) == [ok |-> TRUE, err |-> "", val |-> e]

Raised(e, kind) == [ok |-> FALSE, err |-> kind, val |-> e]

(***************************************************************************)
(* Order methods (order.py:171-290).  o is the Order, now the value of     *)
(* datetime.utcnow() during the call.                                      *)
(***************************************************************************)
\* add_item appending the item before it checks the status.
add_item_unchecked(o, item, now) ==
    LET o1 == [o EXCEPT !.items = Append(@, item), !.updated_at = now]
    IN  IF ~can_modify(o.status) THEN Raised(o1, "NotModifiable") ELSE Returned(o1)

add_item(o, item, now) ==
    IF ~can_modify(o.status)
    THEN Raised(o, "NotModifiable")
    ELSE Returned([o EXCEPT !.items = Append(@, item), !.updated_at = now])

RemoveId(items, item_id) == SelectSeq(items, LAMBDA it : it.id # item_id)

remove_item(o, item_id, now) ==
    IF ~can_modify(o.status)
    THEN Raised(o, "NotModifiable")
    ELSE LET kept == RemoveId(o.items, item_id)
             o1 == [o EXCEPT !.items = kept]
         IN  IF Len(kept) = Len(o.items)
             THEN Raised(o1, "ItemNotFound")
             ELSE Returned([o1 EXCEPT !.updated_at = now])

\* confirm without the check for an empty order.
confirm_unchecked(o, now) ==
    IF o.status # "pending"
    THEN Raised(o, "InvalidTransition")
    ELSE Returned([o EXCEPT !.status = "confirmed",
                            !.confirmed_at = now,
                            !.updated_at = now])

confirm(o, now) ==
    IF o.status # "pending"
    THEN Raised(o, "InvalidTransition")
    ELSE IF o.items = <<>>
    THEN Raised(o, "EmptyOrder")
    ELSE Returned([o EXCEPT !.status = "confirmed",
                            !.confirmed_at = now,
                            !.updated_at = now])

\* submit without the check for an empty order.
submit_unchecked(o, now) ==
    IF o.status # "draft"
    THEN Raised(o, "InvalidTransition")
    ELSE Returned([o EXCEPT !.status = "pending", !.updated_at = now])

submit(o, now) ==
    IF o.status # "draft"
    THEN Raised(o, "InvalidTransition")
    ELSE IF o.items = <<>>
    THEN Raised(o, "EmptyOrder")
    ELSE Returned([o EXCEPT !.status = "pending", !.updated_at = now])

cancel(o, now) ==
    IF ~can_cancel(o.status)
    THEN Raised(o, "InvalidTransition")
    ELSE Returned([o EXCEPT !.status = "cancelled", !.updated_at = now])

\* ship accepting an order that is already SHIPPED.
ship_again(o, now) ==
    IF o.status \notin {"confirmed", "processing", "shipped"}
    THEN Raised(o, "InvalidTransition")
    ELSE Returned([o EXCEPT !.status = "shipped",
                            !.shipped_at = now,
                            !.updated_at = now])

ship(o, now) ==
    IF o.status \notin {"confirmed", "processing"}
    THEN Raised(o, "InvalidTransition")
    ELSE Returned([o EXCEPT !.status = "shipped",
                            !.shipped_at = now,
                            !.updated_at = now])

deliver(o, now) ==
    IF o.status # "shipped"
    THEN Raised(o, "InvalidTransition")
    ELSE Returned([o EXCEPT !.status = "delivered",
                            !.delivered_at = now,
                            !.updated_at = now])

(***************************************************************************)
(* InventoryItem (inventory.py:28-220).  A call returns the item as it     *)
(* leaves it and, for the calls that emit one, the StockMovement.          *)
(***************************************************************************)
Max(a, b) == IF a >= b THEN a ELSE b

quantity_available(i) == Max(0, i.quantity_on_hand - i.quantity_reserved)

needs_reorder(i) == quantity_available(i) <= i.reorder_point

\* StockMovement (inventory.py:223-246).
StockMovement(item, type, qty, ref) ==
    [inventory_item_id |-> item.id, movement_type |-> type, quantity |-> qty,
     reference |-> ref, quantity_after |-> item.quantity_on_hand]

NoMovement == [movement_type |-> "none"]

\* str() of a UUID: the text of the id, which is not the id.
str(uuid) == <<"str", uuid>>

ReturnedWith(e, mv) == [ok |-> TRUE, err |-> "", val |-> e, mv |-> mv]

RaisedIn(e, kind) == [ok |-> FALSE, err |-> kind, val |-> e, mv |-> NoMovement]

\* receive_stock recording the stock before the receipt in the movement.
receive_stock_stale(i, quantity, reference) ==
    IF quantity <= 0
    THEN RaisedIn(i, "InvalidQuantity")
    ELSE ReturnedWith([i EXCEPT !.quantity_on_hand = @ + quantity],
                      StockMovement(i, "purchase", quantity, reference))

\* receive_stock without the check of the quantity.
receive_stock_unchecked(i, quantity, reference) ==
    LET i1 == [i EXCEPT !.quantity_on_hand = Max(0, @ + quantity)]
    IN  ReturnedWith(i1, StockMovement(i1, "purchase", quantity, reference))

receive_stock(i, quantity, reference) ==
    IF quantity <= 0
    THEN RaisedIn(i, "InvalidQuantity")
    ELSE LET i1 == [i EXCEPT !.quantity_on_hand = @ + quantity]
         IN  ReturnedWith(i1, StockMovement(i1, "purchase", quantity, reference))

\* reserve_stock without the check of the available quantity.
reserve_stock_unchecked(i, quantity) ==
    IF quantity <= 0
    THEN RaisedIn(i, "InvalidQuantity")
    ELSE ReturnedWith([i EXCEPT !.quantity_reserved = @ + quantity], NoMovement)

reserve_stock(i, quantity) ==
    IF quantity <= 0
    THEN RaisedIn(i, "InvalidQuantity")
    ELSE IF quantity > quantity_available(i)
    THEN RaisedIn(i, "InsufficientStock")
    ELSE ReturnedWith([i EXCEPT !.quantity_reserved = @ + quantity], NoMovement)

\* release_reservation without the clamp at 0.
release_reservation_unclamped(i, quantity) ==
    IF quantity <= 0
    THEN RaisedIn(i, "InvalidQuantity")
    ELSE ReturnedWith([i EXCEPT !.quantity_reserved = @ - quantity], NoMovement)

\* release_reservation releasing everything that is reserved.
release_reservation_all(i, quantity) ==
    IF quantity <= 0
    THEN RaisedIn(i, "InvalidQuantity")
    ELSE ReturnedWith([i EXCEPT !.quantity_reserved = 0], NoMovement)

\* release_reservation releasing nothing.
release_reservation_none(i, quantity) ==
    IF quantity <= 0
    THEN RaisedIn(i, "InvalidQuantity")
    ELSE ReturnedWith(i, NoMovement)

release_reservation(i, quantity) ==
    IF quantity <= 0
    THEN RaisedIn(i, "InvalidQuantity")
    ELSE ReturnedWith([i EXCEPT !.quantity_reserved = Max(0, @ - quantity)],
                      NoMovement)

\* sell_stock leaving the reservation in place.
sell_stock_keeps_reserved(i, quantity, order_id) ==
    IF quantity <= 0
    THEN RaisedIn(i, "InvalidQuantity")
    ELSE IF quantity > i.quantity_on_hand
    THEN RaisedIn(i, "InsufficientStock")
    ELSE LET i1 == [i EXCEPT !.quantity_on_hand = @ - quantity]
         IN  ReturnedWith(i1, StockMovement(i1, "sale", -quantity, str(order_id)))

sell_stock(i, quantity, order_id) ==
    IF quantity <= 0
    THEN RaisedIn(i, "InvalidQuantity")
    ELSE IF quantity > i.quantity_on_hand
    THEN RaisedIn(i, "InsufficientStock")
    ELSE LET i1 == [i EXCEPT
                      !.quantity_on_hand = @ - quantity,
                      !.quantity_reserved =
                          IF @ > 0 THEN Max(0, @ - quantity) ELSE @]
             reference == str(order_id)  \* order_id is a UUID, never None
         IN  ReturnedWith(i1, StockMovement(i1, "sale", -quantity, reference))

\* adjust_stock clamping the stock at 0 instead of raising.
adjust_stock_clamped(i, quantity, reason) ==
    LET i1 == [i EXCEPT !.quantity_on_hand = Max(0, @ + quantity)]
    IN  ReturnedWith(i1, StockMovement(i1, "adjustment", quantity, reason))

\* adjust_stock recording the new stock as the quantity of the movement.
adjust_stock_absolute(i, quantity, reason) ==
    LET new_quantity == i.quantity_on_hand + quantity
    IN  IF new_quantity < 0
        THEN RaisedIn(i, "NegativeStock")
        ELSE LET i1 == [i EXCEPT !.quantity_on_hand = new_quantity]
             IN  ReturnedWith(i1, StockMovement(i1, "adjustment", new_quantity, reason))

adjust_stock(i, quantity, reason) ==
    LET new_quantity == i.quantity_on_hand + quantity
    IN  IF new_quantity < 0
        THEN RaisedIn(i, "NegativeStock")
        ELSE LET i1 == [i EXCEPT !.quantity_on_hand = new_quantity]
             IN  ReturnedWith(i1, StockMovement(i1, "adjustment", quantity, reason))

(***************************************************************************)
(* State.                                                                  *)
(*   order, clock, call, status0, confirmed : SpecOrder                    *)
(*   dbOrders, dbItems, dbInv, dbMoves, sess, nreq : Spec                  *)
(*   inventory_item, stockCalls, stockLog : SpecStock                      *)
(*   user, userCalls : SpecUser                                            *)
(*   dbUser, login, loginLog : SpecLogin                                   *)
(***************************************************************************)
VARIABLES
    order,      \* the Order entity under test
    clock,      \* datetime.utcnow(), advancing with every call
    call,       \* the last call: its name, its result and the Order before it
    status0,    \* the status the Order was constructed with
    confirmed,  \* confirm() has returned at least once
    dbOrders,   \* committed rows of table orders, by id
    dbItems,    \* committed rows of table order_items
    dbInv,      \* committed rows of table inventory_items, by id
    dbMoves,    \* committed rows of table stock_movements
    sess,       \* the request served in each slot, with its database session
    nreq,       \* the number of requests received so far
    inventory_item, \* the InventoryItem entity under test
    stockCalls, \* the last two calls on it, the latest last
    stockLog,   \* its first quantity_on_hand and the sum of its movements
    user,       \* the User entity under test
    userCalls,  \* the last call on it and the failures since the last success
    dbUser,     \* the committed row of table users of one user
    login,      \* the login request being served, with its session
    loginLog,   \* the login requests answered so far
    invRows,    \* rows of table inventory_items read by the low-stock query
    lowStock    \* the last low-stock query and what it returned

orderVars == <<order, clock, call, status0, confirmed>>

dbVars == <<dbOrders, dbItems, dbInv, dbMoves>>

svcVars == <<dbOrders, dbItems, dbInv, dbMoves, sess, nreq>>

stockVars == <<inventory_item, stockCalls, stockLog>>

userVars == <<user, userCalls, dbUser, login, loginLog>>

queryVars == <<invRows, lowStock>>

vars == <<order, clock, call, status0, confirmed,
          dbOrders, dbItems, dbInv, dbMoves, sess, nreq,
          inventory_item, stockCalls, stockLog, user, userCalls, dbUser, login, loginLog,
          invRows, lowStock>>

Products == {1}

Orgs == {1}

Slots == {1, 2}

\* A mapping with no key, and a mapping with one key set.
Empty == [x \in {} |-> 0]

Put(f, key, v) == [x \in DOMAIN f \cup {key} |-> IF x = key THEN v ELSE f[x]]

\* A request slot that serves nothing.
NoSession == [pc |-> "idle"]

\* The inventory_items rows as POST /inventory creates them
\* (routes/inventory.py:110-157), one per product.
InitialInventory ==
    [p \in Products |->
        [id |-> p, organization_id |-> 1,
         quantity_on_hand |-> InitialStock, quantity_reserved |-> 0]]

\* The database and the request slots before the first request.
NoRequests ==
    /\ dbOrders = Empty
    /\ dbItems = {}
    /\ dbInv = InitialInventory
    /\ dbMoves = {}
    /\ sess = [r \in Slots |-> NoSession]
    /\ nreq = 0

\* InventoryItem(...) as the constructor builds it (inventory.py:28-75).
NewInventoryItem(on_hand, reserved) ==
    [id |-> 1, organization_id |-> 1,
     quantity_on_hand |-> on_hand, quantity_reserved |-> reserved]

(***************************************************************************)
(* User (user.py:40-105).  A time is a number of minutes; NoTime is None.  *)
(***************************************************************************)
LockThreshold == 5

LockMinutes == 15

\* User(...) as the constructor builds it (user.py:48-67).
NewUser(active) ==
    [is_active |-> active, failed_login_attempts |-> 0,
     locked_until |-> NoTime, last_login_at |-> NoTime]

is_locked(u, now) ==
    IF u.locked_until = NoTime THEN FALSE ELSE now < u.locked_until

\* record_failed_login locking at the attempt after the fifth.
record_failed_login_late(u, now) ==
    LET n == u.failed_login_attempts + 1
    IN  [u EXCEPT !.failed_login_attempts = n,
                  !.locked_until = IF n > LockThreshold THEN now + LockMinutes ELSE @]

record_failed_login(u, now) ==
    LET n == u.failed_login_attempts + 1
    IN  [u EXCEPT !.failed_login_attempts = n,
                  !.locked_until = IF n >= LockThreshold THEN now + LockMinutes ELSE @]

record_successful_login(u, now) ==
    [u EXCEPT !.failed_login_attempts = 0, !.locked_until = NoTime,
              !.last_login_at = now]

NoLogin == [pc |-> "idle"]

\* The User under test of SpecUser and the login route of SpecLogin before
\* anything is called.
NoLogins ==
    /\ user = NewUser(TRUE)
    /\ userCalls = [op |-> "none", at |-> NoTime, failures |-> 0]
    /\ dbUser = NewUser(TRUE)
    /\ login = NoLogin
    /\ loginLog = [wrong |-> 0, answered |-> 0]

\* InventoryItem as the low-stock query sees it (inventory.py:46-67).
StockRow(id, org, active, trackable, on_hand, reserved, reorder) ==
    [id |-> id, organization_id |-> org, is_active |-> active,
     is_trackable |-> trackable, quantity_on_hand |-> on_hand,
     quantity_reserved |-> reserved, reorder_point |-> reorder]

NoQuery == [asked |-> FALSE, organization_id |-> 1, items |-> {}]

\* No inventory table for the low-stock query, and no query yet.
NoQueries ==
    /\ invRows = <<>>
    /\ lowStock = NoQuery

\* The entity under test of SpecStock before its first call.
NoStockCalls ==
    /\ inventory_item = NewInventoryItem(InitialStock, 0)
    /\ stockCalls = <<>>
    /\ stockLog = [first |-> InitialStock, moved |-> 0]

ItemIds == 1..NumItemIds

\* An OrderItem (order.py:45-62): id, product_id and quantity >= 1.
OrderItem(id, product, qty) == [id |-> id, product_id |-> product, quantity |-> qty]

\* Order(...) as the constructor builds it (order.py:102-134).
NewOrder(status, items) ==
    [status |-> status, items |-> items, updated_at |-> NoTime,
     confirmed_at |-> NoTime, shipped_at |-> NoTime, delivered_at |-> NoTime]

NoCall == [op |-> "none", ok |-> TRUE, err |-> "", pre |-> NewOrder("draft", <<>>), arg |-> 0]

InitOrder ==
    /\ \E s \in OrderStatus, items \in {<<>>, <<OrderItem(1, 1, 1)>>} :
          /\ order = NewOrder(s, items)
          /\ status0 = s
    /\ clock = 1
    /\ call = NoCall
    /\ confirmed = FALSE
    /\ NoRequests
    /\ NoStockCalls
    /\ NoLogins
    /\ NoQueries

\* One call on the Order: the entity is left as the method left it.
Called(op, arg, res) ==
    /\ clock < MaxClock
    /\ order' = res.val
    /\ call' = [op |-> op, ok |-> res.ok, err |-> res.err, pre |-> order, arg |-> arg]
    /\ clock' = clock + 1
    /\ confirmed' = (confirmed \/ (op = "confirm" /\ res.ok))
    /\ UNCHANGED <<status0, svcVars, stockVars, userVars, queryVars>>

IdsOf(items) == {items[i].id : i \in 1..Len(items)}

CallAddItem ==
    \E id \in ItemIds, q \in 1..MaxQty :
        /\ id \notin IdsOf(order.items)
        /\ Len(order.items) < MaxItems
        /\ Called("add_item", id, add_item(order, OrderItem(id, 1, q), clock))

CallRemoveItem ==
    \E id \in ItemIds : Called("remove_item", id, remove_item(order, id, clock))

CallSubmit == Called("submit", 0, submit(order, clock))

CallConfirm == Called("confirm", 0, confirm(order, clock))

CallCancel == Called("cancel", 0, cancel(order, clock))

CallShip == Called("ship", 0, ship(order, clock))

CallDeliver == Called("deliver", 0, deliver(order, clock))

NextOrder ==
    \/ CallAddItem
    \/ CallRemoveItem
    \/ CallSubmit
    \/ CallConfirm
    \/ CallCancel
    \/ CallShip
    \/ CallDeliver

SpecOrder == InitOrder /\ [][NextOrder]_vars

(***************************************************************************)
(* SpecTotals: the computed totals of an Order (order.py:64-169).  Money   *)
(* is a Decimal in the source; here it is an integer number of 1/Scale     *)
(* units, so that with whole prices and whole percentages every product    *)
(* and every division by 100 the properties compute is exact.              *)
(***************************************************************************)
Scale == 10000

Decimal(n) == n * Scale

Prices == {Decimal(1), Decimal(3)}

Discounts == {0, 50}

Taxes == {0, 10}

ShippingCosts == {Decimal(0), Decimal(5)}

HandlingFees == {Decimal(0), Decimal(1)}

\* An OrderItem with its price (order.py:45-62).
PricedItem(id, qty, price, discount, tax) ==
    [id |-> id, product_id |-> 1, quantity |-> qty, unit_price |-> price,
     discount_percent |-> discount, tax_percent |-> tax]

\* OrderItem.subtotal, discount_amount, taxable_amount, tax_amount and total
\* (order.py:64-92).
subtotal(it) == it.unit_price * it.quantity

discount_amount(it) == (subtotal(it) * it.discount_percent) \div 100

taxable_amount(it) == subtotal(it) - discount_amount(it)

tax_amount(it) == (taxable_amount(it) * it.tax_percent) \div 100

\* OrderItem.total leaving the tax out.
total_untaxed(it) == taxable_amount(it)

total(it) == taxable_amount(it) + tax_amount(it)

\* sum(... for item in self.items), which is 0 for no items.
RECURSIVE sum_total(_)
sum_total(items) ==
    IF items = <<>> THEN 0 ELSE total(Head(items)) + sum_total(Tail(items))

\* Order.grand_total (order.py:158-163).
grand_total(o) == sum_total(o.items) + o.shipping_cost + o.handling_fee

\* Order(...) with its additional charges (order.py:102-134).
PricedOrder(shipping, handling) ==
    [status |-> "draft", items |-> <<>>, updated_at |-> NoTime,
     confirmed_at |-> NoTime, shipped_at |-> NoTime, delivered_at |-> NoTime,
     shipping_cost |-> shipping, handling_fee |-> handling]

InitTotals ==
    /\ \E shipping \in ShippingCosts, handling \in HandlingFees :
          order = PricedOrder(shipping, handling)
    /\ status0 = "draft"
    /\ clock = 1
    /\ call = [op |-> "none", ok |-> TRUE, read |-> 0, last |-> 0]
    /\ confirmed = FALSE
    /\ NoRequests
    /\ NoStockCalls
    /\ NoLogins
    /\ NoQueries

\* A call that changes the items.
Mutated(op, res) ==
    /\ order' = res.val
    /\ call' = [op |-> op, ok |-> res.ok, read |-> 0, last |-> 0]
    /\ UNCHANGED <<clock, status0, confirmed, svcVars, stockVars, userVars, queryVars>>

AddPricedItem ==
    \E id \in ItemIds, q \in 1..MaxQty, price \in Prices,
       discount \in Discounts, tax \in Taxes :
        /\ id \notin IdsOf(order.items)
        /\ Len(order.items) < MaxItems
        /\ Mutated("add_item",
                   add_item(order, PricedItem(id, q, price, discount, tax), NoTime))

RemovePricedItem ==
    \E id \in ItemIds : Mutated("remove_item", remove_item(order, id, NoTime))

\* order.grand_total is read: call holds what it returned and, when the
\* call before it was a read too, what that one returned.
ReadGrandTotal ==
    /\ call' = [op |-> IF call.op \in {"grand_total", "grand_total again"}
                       THEN "grand_total again" ELSE "grand_total",
                ok |-> TRUE, read |-> grand_total(order), last |-> call.read]
    /\ UNCHANGED <<order, clock, status0, confirmed, svcVars, stockVars, userVars, queryVars>>

NextTotals ==
    \/ AddPricedItem
    \/ RemovePricedItem
    \/ ReadGrandTotal

SpecTotals == InitTotals /\ [][NextTotals]_vars

(***************************************************************************)
(* SpecStock: one InventoryItem and the calls made on it.  The item is     *)
(* constructed with quantity_reserved <= quantity_on_hand; the quantities  *)
(* passed include zero and negative ones.  A call that would take          *)
(* quantity_on_hand above MaxOnHand is not made.                           *)
(***************************************************************************)
StockArgs == (0 - 1)..(MaxQty + 1)

PurchaseOrder == "PO-1"

Reason == "count"

ShippedOrder == 7

InitStock ==
    /\ order = NewOrder("draft", <<>>)
    /\ status0 = "draft"
    /\ clock = 1
    /\ call = NoCall
    /\ confirmed = FALSE
    /\ NoRequests
    /\ \E on_hand \in 0..MaxOnHand, reserved \in 0..MaxOnHand :
          /\ reserved <= on_hand
          /\ inventory_item = NewInventoryItem(on_hand, reserved)
          /\ stockLog = [first |-> on_hand, moved |-> 0]
    /\ stockCalls = <<>>
    /\ NoLogins
    /\ NoQueries

\* The last two entries of a sequence of calls.
LastTwo(calls) == IF Len(calls) > 2 THEN Tail(calls) ELSE calls

\* One call on the InventoryItem: the entity is left as the method left it.
StockCalled(op, q, res) ==
    /\ res.val.quantity_on_hand <= MaxOnHand
    /\ inventory_item' = res.val
    /\ stockCalls' = LastTwo(Append(stockCalls,
                          [op |-> op, quantity |-> q, ok |-> res.ok,
                           err |-> res.err, pre |-> inventory_item,
                           post |-> res.val, mv |-> res.mv]))
    /\ stockLog' = [stockLog EXCEPT
                       !.moved = IF res.mv = NoMovement THEN @
                                 ELSE @ + res.mv.quantity]
    /\ UNCHANGED <<orderVars, svcVars, userVars, queryVars>>

CallReceiveStock ==
    \E q \in StockArgs :
        StockCalled("receive_stock", q, receive_stock(inventory_item, q, PurchaseOrder))

CallReserveStock ==
    \E q \in StockArgs :
        StockCalled("reserve_stock", q, reserve_stock(inventory_item, q))

CallReleaseReservation ==
    \E q \in StockArgs :
        StockCalled("release_reservation", q, release_reservation(inventory_item, q))

CallSellStock ==
    \E q \in StockArgs :
        StockCalled("sell_stock", q, sell_stock(inventory_item, q, ShippedOrder))

CallAdjustStock ==
    \E q \in StockArgs :
        StockCalled("adjust_stock", q, adjust_stock(inventory_item, q, Reason))

NextStock ==
    \/ CallReceiveStock
    \/ CallReserveStock
    \/ CallReleaseReservation
    \/ CallSellStock
    \/ CallAdjustStock

SpecStock == InitStock /\ [][NextStock]_vars

(***************************************************************************)
(* SpecUser: one User and the calls of record_failed_login and             *)
(* record_successful_login on it, while time passes.  clock is             *)
(* datetime.utcnow() in minutes.                                           *)
(***************************************************************************)
MinuteStep == 10

InitUser ==
    /\ order = NewOrder("draft", <<>>)
    /\ status0 = "draft"
    /\ clock = 1
    /\ call = NoCall
    /\ confirmed = FALSE
    /\ NoRequests
    /\ NoStockCalls
    /\ NoLogins
    /\ NoQueries

\* Time passes.
Tick ==
    /\ clock + MinuteStep <= MaxMinutes
    /\ clock' = clock + MinuteStep
    /\ UNCHANGED <<order, call, status0, confirmed, svcVars, stockVars, userVars, queryVars>>

\* One call on the User; failures counts the record_failed_login calls
\* since the last record_successful_login.
UserCalled(op, u) ==
    /\ user' = u
    /\ userCalls' = [op |-> op, at |-> clock,
                     failures |-> IF op = "record_failed_login"
                                  THEN userCalls.failures + 1 ELSE 0]
    /\ UNCHANGED <<orderVars, svcVars, stockVars, queryVars, dbUser, login, loginLog>>

CallRecordFailedLogin ==
    /\ userCalls.failures < MaxFailures
    /\ UserCalled("record_failed_login", record_failed_login(user, clock))

CallRecordSuccessfulLogin ==
    UserCalled("record_successful_login", record_successful_login(user, clock))

NextUser ==
    \/ Tick
    \/ CallRecordFailedLogin
    \/ CallRecordSuccessfulLogin

SpecUser == InitUser /\ [][NextUser]_vars

(***************************************************************************)
(* SpecLogin: the login requests for one user (routes/auth.py:54-114),     *)
(* served one after the other, each with its own session from get_session. *)
(* The user exists; it is active or not.                                   *)
(***************************************************************************)
InitLogin ==
    /\ order = NewOrder("draft", <<>>)
    /\ status0 = "draft"
    /\ clock = 1
    /\ call = NoCall
    /\ confirmed = FALSE
    /\ NoRequests
    /\ NoStockCalls
    /\ NoQueries
    /\ user = NewUser(TRUE)
    /\ userCalls = [op |-> "none", at |-> NoTime, failures |-> 0]
    /\ \E active \in BOOLEAN : dbUser = NewUser(active)
    /\ login = NoLogin
    /\ loginLog = [wrong |-> 0, answered |-> 0]

\* The step of the login request leaves it as l.
LoginStep(l) ==
    /\ login' = l
    /\ UNCHANGED <<orderVars, svcVars, stockVars, queryVars, user, userCalls, dbUser, loginLog>>

\* POST /login arrives with the right or a wrong password, and
\* user_repo.get_by_email loads the user (auth.py:75).
LoginBegin ==
    /\ login.pc = "idle"
    /\ loginLog.answered < MaxLogins
    /\ \E right \in BOOLEAN :
          LoginStep([pc |-> "authenticate", password_ok |-> right,
                     entity |-> dbUser, written |-> FALSE, status |-> 0,
                     detail |-> "", counted |-> FALSE])

\* auth_service.authenticate_user (auth_service.py:175-204) and the route
\* up to its next await (auth.py:84-100).
Authenticate ==
    /\ login.pc = "authenticate"
    /\ IF ~login.entity.is_active
       THEN LoginStep([login EXCEPT !.pc = "exit", !.status = 401,
                                    !.detail = "Account is inactive"])
       ELSE IF is_locked(login.entity, clock)
       THEN LoginStep([login EXCEPT !.pc = "exit", !.status = 401,
                                    !.detail = "Account is temporarily locked"])
       ELSE IF ~login.password_ok
       THEN LoginStep([login EXCEPT
                          !.entity = record_failed_login(@, clock),
                          !.counted = TRUE,
                          !.pc = "save_failed"])
       ELSE LoginStep([login EXCEPT
                          !.entity = record_successful_login(@, clock),
                          !.pc = "save"])

\* user_repo.update (base.py:102-116): merge and flush in the transaction
\* of the request; then the route raises 401 (auth.py:86-91) or returns the
\* tokens (auth.py:100-114).
UpdateUser ==
    /\ login.pc \in {"save_failed", "save"}
    /\ IF login.pc = "save_failed"
       THEN LoginStep([login EXCEPT !.written = TRUE, !.pc = "exit",
                                    !.status = 401,
                                    !.detail = "Invalid email or password"])
       ELSE LoginStep([login EXCEPT !.written = TRUE, !.pc = "exit",
                                    !.status = 200])

\* get_session after the route (session.py:65-72): commit when the route
\* returned, rollback when it raised, the HTTPException included.
LoginExit ==
    /\ login.pc = "exit"
    /\ dbUser' = IF login.status = 200 /\ login.written THEN login.entity ELSE dbUser
    /\ login' = NoLogin
    /\ loginLog' = [wrong |-> IF login.counted THEN loginLog.wrong + 1
                              ELSE IF login.status = 200 THEN 0
                              ELSE loginLog.wrong,
                    answered |-> loginLog.answered + 1]
    /\ UNCHANGED <<orderVars, svcVars, stockVars, queryVars, user, userCalls>>

NextLogin ==
    \/ Tick
    \/ LoginBegin
    \/ Authenticate
    \/ UpdateUser
    \/ LoginExit

SpecLogin == InitLogin /\ [][NextLogin]_vars

(***************************************************************************)
(* Persistence.  A request runs in one AsyncSession (session.py:53-72):    *)
(* what its repositories flush stays pending in its transaction until the  *)
(* session commits; other requests read the committed rows.  wInv and wOrd *)
(* hold the columns of the UPDATEs flushed so far, per row; a row with a   *)
(* pending UPDATE is locked against the UPDATEs of other transactions.     *)
(***************************************************************************)
\* The columns of new that differ from old: what merge() marks as changed.
Changed(old, new) == [c \in {d \in DOMAIN new : new[d] # old[d]} |-> new[c]]

\* row with the columns of w written over it.
Overlay(row, w) == [c \in DOMAIN row |-> IF c \in DOMAIN w THEN w[c] ELSE row[c]]

OrderColumns ==
    {"id", "organization_id", "order_number", "status", "updated_at",
     "confirmed_at", "shipped_at", "delivered_at"}

\* OrderRepository._to_model (order_repository.py:65-106): the orders row
\* and the order_items rows of an Order.
OrderRow(e) == [c \in OrderColumns |-> e[c]]

ItemRows(e) ==
    {[id |-> e.items[i].id, order_id |-> e.id,
      product_id |-> e.items[i].product_id, quantity |-> e.items[i].quantity] :
        i \in 1..Len(e.items)}

RECURSIVE ItemList(_)
ItemList(rows) ==
    IF rows = {}
    THEN <<>>
    ELSE LET first == CHOOSE x \in rows : \A y \in rows : x.id <= y.id
         IN  <<OrderItem(first.id, first.product_id, first.quantity)>>
                 \o ItemList(rows \ {first})

\* OrderRepository._to_entity (order_repository.py:24-63).
OrderEntity(row, rows) ==
    [id |-> row.id, organization_id |-> row.organization_id,
     order_number |-> row.order_number, status |-> row.status,
     items |-> ItemList(rows), updated_at |-> row.updated_at,
     confirmed_at |-> row.confirmed_at, shipped_at |-> row.shipped_at,
     delivered_at |-> row.delivered_at]

NoOrder == [id |-> 0]

NoItem == [id |-> 0]

\* The day datetime.utcnow() falls on while the requests are served.
Today == 1

\* The requests a slot can serve.
Active(r) == sess[r].pc \notin {"idle", "done"}

Others(r) == {s \in Slots \ {r} : Active(s)}

\* Another open transaction has flushed an UPDATE of the row.
InvLocked(r, p) == \E s \in Others(r) : p \in DOMAIN sess[s].wInv

OrderLocked(r, oid) == \E s \in Others(r) : oid \in DOMAIN sess[s].wOrd

\* Another open transaction has flushed an INSERT with this order_number.
NumberPending(r, number) ==
    \E s \in Others(r) : \E row \in sess[s].insOrd : row.order_number = number

\* The request and the empty session it is given (async_session_factory()).
Request(rid, op, org, oid, p, q, pc) ==
    [pc |-> pc, rid |-> rid, op |-> op, organization_id |-> org,
     order_id |-> oid, product_id |-> p, quantity |-> q, raised |-> "",
     ord |-> NoOrder, ord0 |-> NoOrder, k |-> 0, inv |-> NoItem,
     mv |-> NoMovement, avail |-> 0, seen |-> Empty, wInv |-> Empty,
     wOrd |-> Empty, wItems |-> {}, wMoves |-> {}, insOrd |-> {},
     met |-> {}]

\* The ids a request may name: those of the committed orders, and one of none.
MissingId == 0

OrderArgs == DOMAIN dbOrders \cup {MissingId}

Deltas == {-1, 1}

\* The products a request may name: those in stock, and one of none.
ProductArgs == Products \cup {MissingId}

Open(r, op, org, oid, p, q, pc) ==
    /\ ~Active(r)
    /\ nreq' = nreq + 1
    /\ sess' = [sess EXCEPT ![r] = Request(nreq + 1, op, org, oid, p, q, pc)]
    /\ UNCHANGED <<dbVars, orderVars, stockVars, userVars, queryVars>>

\* The requests of Spec are MaxReq at most.
Start(r, op, org, oid, p, q, pc) ==
    /\ nreq < MaxReq
    /\ Open(r, op, org, oid, p, q, pc)

\* A request arrives: the route is entered with a new session.  ship_order
\* has no route of its own; it is served the way the other methods of
\* OrderService are.
Begin(r) ==
    \/ \E org \in Orgs : Start(r, "create_order", org, 0, 0, 0, "generate")
    \/ \E oid \in OrderArgs, p \in ProductArgs, q \in 1..MaxQty :
           Start(r, "add_item_to_order", 0, oid, p, q, "get_order")
    \/ \E oid \in OrderArgs, op \in {"submit_order", "confirm_order",
                                     "cancel_order", "ship_order"} :
           Start(r, op, 0, oid, 0, 0, "get_order")
    \/ \E p \in Products, q \in 1..MaxQty :
           Start(r, "receive_stock", 0, 0, p, q, "get_inventory")
    \/ \E p \in Products, q \in Deltas :
           Start(r, "adjust_stock", 0, 0, p, q, "get_inventory")

\* The step of request r leaves its session as s.
Step(r, s) ==
    /\ sess' = [sess EXCEPT ![r] = s]
    /\ UNCHANGED <<dbVars, nreq, orderVars, stockVars, userVars, queryVars>>

\* An exception leaves the route: get_session receives it at its yield.
Raise(s, kind) == [s EXCEPT !.raised = kind, !.pc = "exit"]

(***************************************************************************)
(* OrderService.create_order (order_service.py:38-68).                     *)
(***************************************************************************)
\* generate_order_number (order_repository.py:196-211): ORD-<day>-<count+1>,
\* count being the committed orders of the organization.
generate_order_number(org) ==
    <<Today, Cardinality({o \in DOMAIN dbOrders :
                             dbOrders[o].organization_id = org}) + 1>>

GenerateOrderNumber(r) ==
    LET s == sess[r]
        new == [id |-> s.rid, organization_id |-> s.organization_id,
                order_number |-> generate_order_number(s.organization_id),
                status |-> "draft", items |-> <<>>, updated_at |-> s.rid,
                confirmed_at |-> NoTime, shipped_at |-> NoTime,
                delivered_at |-> NoTime]
    IN  /\ s.pc = "generate"
        /\ Step(r, [s EXCEPT !.ord = new, !.pc = "add_order"])

\* BaseRepository.add (base.py:86-100): INSERT and flush.  order_number is
\* unique (models.py:126): the INSERT waits for an open transaction that
\* inserted the same number, and fails once that number is committed.
AddOrder(r) ==
    LET s == sess[r]
        number == s.ord.order_number
    IN  /\ s.pc = "add_order"
        /\ ~NumberPending(r, number)
        /\ IF \E o \in DOMAIN dbOrders : dbOrders[o].order_number = number
           THEN Step(r, Raise(s, "IntegrityError"))
           ELSE Step(r, [s EXCEPT !.insOrd = {OrderRow(s.ord)}, !.pc = "exit"])

(***************************************************************************)
(* The methods of OrderService that load an order (order_service.py:       *)
(* 70-219) and the stock routes (routes/inventory.py:284-346).             *)
(***************************************************************************)
\* order.cancel() or order.ship() once the loop over the items is through.
Finish(s) ==
    LET res == IF s.op = "cancel_order" THEN cancel(s.ord, s.rid)
                                        ELSE ship(s.ord, s.rid)
    IN  IF res.ok THEN [s EXCEPT !.ord = res.val, !.pc = "update_order"]
                  ELSE Raise(s, res.err)

\* The loop over order.items, the item at k being done.
NextItem(s) ==
    IF s.k < Len(s.ord.items)
    THEN [s EXCEPT !.k = @ + 1, !.pc = "get_inventory"]
    ELSE Finish(s)

\* order_repo.get_by_id (order_repository.py:108-117) and the code up to the
\* next await.
GetOrder(r) ==
    LET s == sess[r]
        oid == s.order_id
        e == OrderEntity(dbOrders[oid], {x \in dbItems : x.order_id = oid})
        s1 == [s EXCEPT !.ord = e, !.ord0 = e]
        res == IF s.op = "submit_order" THEN submit(e, s.rid)
                                        ELSE confirm(e, s.rid)
    IN  /\ s.pc = "get_order"
        /\ IF oid \notin DOMAIN dbOrders
           THEN Step(r, Raise(s, "NotFound"))
           ELSE IF s.op = "add_item_to_order"
           THEN Step(r, [s1 EXCEPT !.pc = "get_inventory"])
           ELSE IF s.op \in {"submit_order", "confirm_order"}
           THEN IF res.ok
                THEN Step(r, [s1 EXCEPT !.ord = res.val, !.pc = "update_order"])
                ELSE Step(r, Raise(s1, res.err))
           ELSE Step(r, NextItem(s1))

\* The product whose inventory row the request is about to load.
ProductOf(s) ==
    IF s.op \in {"cancel_order", "ship_order"}
    THEN s.ord.items[s.k].product_id
    ELSE s.product_id

\* The call the request makes on the InventoryItem it loaded.
StockCall(s, item) ==
    CASE s.op = "add_item_to_order" -> reserve_stock(item, s.quantity)
      [] s.op = "cancel_order" ->
             release_reservation(item, s.ord.items[s.k].quantity)
      [] s.op = "ship_order" ->
             sell_stock(item, s.ord.items[s.k].quantity, s.order_id)
      [] s.op = "receive_stock" -> receive_stock(item, s.quantity, 0)
      [] s.op = "adjust_stock" -> adjust_stock(item, s.quantity, 0)

\* inventory_repo.get_by_id (base.py:49-60): session.get, which returns the
\* row the session holds if it has loaded it before; and the code up to the
\* next await.
GetInventory(r) ==
    LET s == sess[r]
        p == ProductOf(s)
        item == IF p \in DOMAIN s.seen THEN s.seen[p] ELSE dbInv[p]
        s1 == [s EXCEPT !.seen = Put(@, p, item),
                        !.avail = quantity_available(item)]
        added == add_item(s.ord, OrderItem(s.rid, p, s.quantity), s.rid)
        res == StockCall(s, item)
        s2 == [s1 EXCEPT !.inv = res.val, !.mv = res.mv,
                         !.pc = IF res.mv = NoMovement THEN "update_inventory"
                                                       ELSE "add_movement"]
    IN  /\ s.pc = "get_inventory"
        /\ IF p \notin DOMAIN dbInv
           THEN IF s.op \in {"cancel_order", "ship_order"}
                THEN Step(r, NextItem(s))
                ELSE Step(r, Raise(s, "NotFound"))
           ELSE IF s.op = "add_item_to_order" /\ quantity_available(item) < s.quantity
           THEN Step(r, Raise(s1, "InsufficientStock"))
           ELSE IF s.op = "add_item_to_order" /\ ~added.ok
           THEN Step(r, Raise([s1 EXCEPT !.ord = added.val], added.err))
           ELSE IF ~res.ok
           THEN Step(r, Raise(s1, res.err))
           ELSE IF s.op = "add_item_to_order"
           THEN Step(r, [s2 EXCEPT !.ord = added.val])
           ELSE Step(r, s2)

\* inventory_repo.add_stock_movement (inventory_repository.py:181-196):
\* INSERT and flush.
AddStockMovement(r) ==
    LET s == sess[r]
        row == [id |-> <<s.rid, s.k>>,
                inventory_item_id |-> s.mv.inventory_item_id,
                movement_type |-> s.mv.movement_type,
                quantity |-> s.mv.quantity,
                reference |-> s.mv.reference,
                quantity_after |-> s.mv.quantity_after]
    IN  /\ s.pc = "add_movement"
        /\ Step(r, [s EXCEPT !.wMoves = @ \cup {row}, !.pc = "update_inventory"])

\* inventory_repo.update (base.py:102-116): merge() onto the row the session
\* holds, flush of the UPDATE of the changed columns, refresh of the row; and
\* the code up to the next await.
UpdateInventory(r) ==
    LET s == sess[r]
        p == s.inv.id
        before == IF p \in DOMAIN s.wInv THEN s.wInv[p] ELSE Empty
        w == Changed(s.seen[p], s.inv)
        w1 == [c \in DOMAIN before \cup DOMAIN w |->
                  IF c \in DOMAIN w THEN w[c] ELSE before[c]]
        s1 == [s EXCEPT !.wInv = Put(@, p, w1),
                        !.seen = Put(@, p, Overlay(dbInv[p], w1))]
    IN  /\ s.pc = "update_inventory"
        /\ ~InvLocked(r, p)
        /\ IF s.op = "add_item_to_order"
           THEN Step(r, [s1 EXCEPT !.pc = "update_order"])
           ELSE IF s.op \in {"cancel_order", "ship_order"}
           THEN Step(r, NextItem(s1))
           ELSE Step(r, [s1 EXCEPT !.pc = "exit"])

\* order_repo.update (base.py:102-116): the UPDATE of the changed columns of
\* the orders row and the INSERT of the order_items the session did not load.
UpdateOrder(r) ==
    LET s == sess[r]
        oid == s.ord.id
        w == Changed(OrderRow(s.ord0), OrderRow(s.ord))
    IN  /\ s.pc = "update_order"
        /\ ~OrderLocked(r, oid)
        /\ Step(r, [s EXCEPT !.wOrd = Put(@, oid, w),
                             !.wItems = ItemRows(s.ord) \ ItemRows(s.ord0),
                             !.pc = "exit"])

(***************************************************************************)
(* The end of a request (session.py:62-72).                                *)
(***************************************************************************)
\* get_session commits when the route returned and rolls back when an
\* exception reached its yield (session.py:64-69).
commit(s) == s.raised = ""

\* The committed rows once the pending writes of s are committed.
Commit(s) ==
    /\ dbOrders' =
           [o \in DOMAIN dbOrders \cup {row.id : row \in s.insOrd} |->
               IF o \in DOMAIN dbOrders
               THEN IF o \in DOMAIN s.wOrd
                    THEN Overlay(dbOrders[o], s.wOrd[o])
                    ELSE dbOrders[o]
               ELSE CHOOSE row \in s.insOrd : row.id = o]
    /\ dbItems' = dbItems \cup s.wItems
    /\ dbInv' = [p \in DOMAIN dbInv |->
                    IF p \in DOMAIN s.wInv THEN Overlay(dbInv[p], s.wInv[p])
                                           ELSE dbInv[p]]
    /\ dbMoves' = dbMoves \cup s.wMoves

\* What a request that is still being served can have missed: a request
\* that committed writes to the inventory meanwhile.
Summary(s) ==
    [op |-> s.op, product_id |-> s.product_id, quantity |-> s.quantity,
     avail |-> s.avail]

SessionExit(r) ==
    LET s == sess[r]
        wrote == commit(s) /\ DOMAIN s.wInv # {}
    IN  /\ s.pc = "exit"
        /\ IF commit(s) THEN Commit(s) ELSE UNCHANGED dbVars
        /\ sess' = [x \in Slots |->
                      IF x = r THEN NoSession
                      ELSE IF Active(x) /\ wrote
                      THEN [sess[x] EXCEPT !.met = @ \cup {Summary(s)}]
                      ELSE sess[x]]
        /\ UNCHANGED <<nreq, orderVars, stockVars, userVars, queryVars>>

\* The request is cancelled or its process dies with the transaction open:
\* the session is closed without a commit and the database discards what it
\* flushed.
Abort(r) ==
    /\ Active(r)
    /\ sess' = [sess EXCEPT ![r] = NoSession]
    /\ UNCHANGED <<dbVars, nreq, orderVars, stockVars, userVars, queryVars>>

(***************************************************************************)
(* The database the requests start from: two orders of organization 1,     *)
(* as earlier requests served one after another leave them.  Order -1 is   *)
(* DRAFT, CONFIRMED or CANCELLED (from DRAFT) with up to two items of      *)
(* product 1, order -2 is DRAFT and empty; the items of a DRAFT or         *)
(* CONFIRMED order are reserved, those of a CANCELLED order released.      *)
(***************************************************************************)
SeedTime == -1

SeedStatus == {"draft", "confirmed", "cancelled"}

SeedItems ==
    {<<>>,
     <<OrderItem(-2, 1, 1)>>,
     <<OrderItem(-2, 1, 1), OrderItem(-1, 1, MaxQty)>>}

SeedOrder(id, number, status, items) ==
    [id |-> id, organization_id |-> 1, order_number |-> <<Today, number>>,
     status |-> status, items |-> items, updated_at |-> SeedTime,
     confirmed_at |-> IF status = "confirmed" THEN SeedTime ELSE NoTime,
     shipped_at |-> NoTime, delivered_at |-> NoTime]

RECURSIVE TotalQuantity(_)
TotalQuantity(items) ==
    IF items = <<>> THEN 0
    ELSE Head(items).quantity + TotalQuantity(Tail(items))

Init ==
    /\ order = NewOrder("draft", <<>>)
    /\ status0 = "draft"
    /\ clock = 1
    /\ call = NoCall
    /\ confirmed = FALSE
    /\ \E status \in SeedStatus, items \in SeedItems :
          LET first == SeedOrder(-1, 1, status, items)
              second == SeedOrder(-2, 2, "draft", <<>>)
              held == IF status = "cancelled" THEN 0 ELSE TotalQuantity(items)
          IN  /\ status = "confirmed" => items # <<>>
              /\ dbOrders = [o \in {-1, -2} |->
                                OrderRow(IF o = -1 THEN first ELSE second)]
              /\ dbItems = ItemRows(first)
              /\ dbInv = [InitialInventory EXCEPT ![1].quantity_reserved = held]
    /\ dbMoves = {}
    /\ sess = [r \in Slots |-> NoSession]
    /\ nreq = 0
    /\ NoStockCalls
    /\ NoLogins
    /\ NoQueries

Next ==
    \E r \in Slots :
        \/ Begin(r)
        \/ GenerateOrderNumber(r)
        \/ AddOrder(r)
        \/ GetOrder(r)
        \/ GetInventory(r)
        \/ AddStockMovement(r)
        \/ UpdateInventory(r)
        \/ UpdateOrder(r)
        \/ SessionExit(r)
        \/ Abort(r)

Spec == Init /\ [][Next]_vars

(***************************************************************************)
(* SpecSerial: the service calls executed one at a time, each in its own   *)
(* get_session transaction, for two organizations.  The database starts    *)
(* with one order of each organization, created on two earlier days:       *)
(* order -1 of organization 1 as in Init, order -2 of organization 2 in    *)
(* DRAFT and empty.  The one product belongs to organization 1.            *)
(***************************************************************************)
Tenants == {1, 2}

\* The slot that serves the calls.
Serial == 1

SerialSeed(id, org, day, status, items) ==
    [SeedOrder(id, 1, status, items) EXCEPT
        !.organization_id = org, !.order_number = <<day, 1>>]

InitSerial ==
    /\ order = NewOrder("draft", <<>>)
    /\ status0 = "draft"
    /\ clock = 1
    /\ call = NoCall
    /\ confirmed = FALSE
    /\ \E status \in SeedStatus, items \in SeedItems :
          LET first == SerialSeed(-1, 1, Today - 2, status, items)
              second == SerialSeed(-2, 2, Today - 1, "draft", <<>>)
              held == IF status = "cancelled" THEN 0 ELSE TotalQuantity(items)
          IN  /\ status = "confirmed" => items # <<>>
              /\ dbOrders = [o \in {-1, -2} |->
                                OrderRow(IF o = -1 THEN first ELSE second)]
              /\ dbItems = ItemRows(first)
              /\ dbInv = [InitialInventory EXCEPT ![1].quantity_reserved = held]
    /\ dbMoves = {}
    /\ sess = [r \in Slots |-> NoSession]
    /\ nreq = 0
    /\ NoStockCalls
    /\ NoLogins
    /\ NoQueries

\* A service method or a stock route is called, MaxCalls times at most.
SerialBegin ==
    /\ nreq < MaxCalls
    /\ \/ \E org \in Tenants : Open(Serial, "create_order", org, 0, 0, 0, "generate")
       \/ \E oid \in OrderArgs, p \in ProductArgs, q \in 1..MaxQty :
              Open(Serial, "add_item_to_order", 0, oid, p, q, "get_order")
       \/ \E oid \in OrderArgs, op \in {"submit_order", "confirm_order",
                                        "cancel_order", "ship_order"} :
              Open(Serial, op, 0, oid, 0, 0, "get_order")
       \/ \E p \in Products, q \in 1..MaxQty :
              Open(Serial, "receive_stock", 0, 0, p, q, "get_inventory")
       \/ \E p \in Products, q \in Deltas :
              Open(Serial, "adjust_stock", 0, 0, p, q, "get_inventory")

NextSerial ==
    \/ SerialBegin
    \/ GenerateOrderNumber(Serial)
    \/ AddOrder(Serial)
    \/ GetOrder(Serial)
    \/ GetInventory(Serial)
    \/ AddStockMovement(Serial)
    \/ UpdateInventory(Serial)
    \/ UpdateOrder(Serial)
    \/ SessionExit(Serial)
    \/ Abort(Serial)

SpecSerial == InitSerial /\ [][NextSerial]_vars

(***************************************************************************)
(* Claims about the Order aggregate, under SpecOrder.  call.pre is the     *)
(* Order before the last call and order the Order after it.                *)
(***************************************************************************)
Transitions == {"submit", "confirm", "ship", "deliver", "cancel"}

\* The edges of the lifecycle: <<call, status before, status after>>.
Edges ==
    {<<"submit", "draft", "pending">>,
     <<"confirm", "pending", "confirmed">>,
     <<"ship", "confirmed", "shipped">>,
     <<"ship", "processing", "shipped">>,
     <<"deliver", "shipped", "delivered">>}
    \cup {<<"cancel", s, "cancelled">> :
             s \in {"draft", "pending", "confirmed", "processing"}}

SourcesOf(op) == {e[2] : e \in {x \in Edges : x[1] = op}}

Terminal == {"delivered", "cancelled", "refunded"}

\* C7: the status changes only along the edges submit DRAFT->PENDING,
\* confirm PENDING->CONFIRMED, ship CONFIRMED|PROCESSING->SHIPPED, deliver
\* SHIPPED->DELIVERED and cancel DRAFT|PENDING|CONFIRMED|PROCESSING->CANCELLED;
\* a transition called from any other status fails with InvalidTransition
\* and leaves the status unchanged; no call changes the status of an order
\* that is DELIVERED, CANCELLED or REFUNDED.
C7_TransitionsFollowGraph ==
    call.op # "none" =>
        /\ order.status # call.pre.status =>
               <<call.op, call.pre.status, order.status>> \in Edges
        /\ (call.op \in Transitions /\ call.pre.status \notin SourcesOf(call.op)) =>
               /\ ~call.ok
               /\ call.err = "InvalidTransition"
               /\ order.status = call.pre.status
        /\ call.pre.status \in Terminal => order.status = call.pre.status

C7_Witness ==
    /\ status0 = "draft"
    /\ order.status = "delivered"
    /\ call.op = "cancel"
    /\ call.pre.status = "delivered"
    /\ call.err = "InvalidTransition"

C9_EmptyOrderRejected ==
    call.op \in {"submit", "confirm"} =>
        /\ call.pre.items = <<>> =>
               /\ ~call.ok
               /\ order.status = call.pre.status
               /\ order.confirmed_at = call.pre.confirmed_at
               /\ call.err = IF call.pre.status \in SourcesOf(call.op)
                             THEN "EmptyOrder"
                             ELSE "InvalidTransition"
        /\ (call.pre.items # <<>> /\ call.op = "submit"
              /\ call.pre.status = "draft") =>
               call.ok /\ order.status = "pending"
        /\ (call.pre.items # <<>> /\ call.op = "confirm"
              /\ call.pre.status = "pending") =>
               /\ call.ok
               /\ order.status = "confirmed"
               /\ order.confirmed_at # NoTime

C9_Witness ==
    /\ status0 = "draft"
    /\ call.op = "confirm"
    /\ call.pre.status = "pending"
    /\ call.pre.items = <<>>
    /\ call.err = "EmptyOrder"
    /\ order.status = "pending"

\* C9 as stated: on an order with zero items submit and confirm fail with
\* EmptyOrder, whatever the status, and leave status and confirmed_at
\* unchanged; with at least one item, submit from DRAFT yields PENDING and
\* confirm from PENDING yields CONFIRMED with confirmed_at set.
C9_AsStated ==
    call.op \in {"submit", "confirm"} =>
        /\ call.pre.items = <<>> =>
               /\ call.err = "EmptyOrder"
               /\ order.status = call.pre.status
               /\ order.confirmed_at = call.pre.confirmed_at
        /\ (call.pre.items # <<>> /\ call.op = "submit"
              /\ call.pre.status = "draft") =>
               call.ok /\ order.status = "pending"
        /\ (call.pre.items # <<>> /\ call.op = "confirm"
              /\ call.pre.status = "pending") =>
               /\ call.ok
               /\ order.status = "confirmed"
               /\ order.confirmed_at # NoTime

\* C10: for an order constructed in DRAFT, confirmed_at is set iff confirm
\* has succeeded, shipped_at is set iff the status is SHIPPED or DELIVERED,
\* delivered_at is set iff the status is DELIVERED; each is set only by
\* its own transition, and once set no later call, successful or failed,
\* overwrites or clears it.
C10_TimestampsSetOnce ==
    status0 = "draft" =>
        /\ (order.confirmed_at # NoTime) <=> confirmed
        /\ (order.shipped_at # NoTime) <=> (order.status \in {"shipped", "delivered"})
        /\ (order.delivered_at # NoTime) <=> (order.status = "delivered")
        /\ call.op # "none" =>
               /\ order.confirmed_at # call.pre.confirmed_at =>
                      call.op = "confirm" /\ call.ok /\ call.pre.confirmed_at = NoTime
               /\ order.shipped_at # call.pre.shipped_at =>
                      call.op = "ship" /\ call.ok /\ call.pre.shipped_at = NoTime
               /\ order.delivered_at # call.pre.delivered_at =>
                      call.op = "deliver" /\ call.ok /\ call.pre.delivered_at = NoTime

C10_Witness ==
    /\ status0 = "draft"
    /\ order.status = "delivered"
    /\ order.confirmed_at # NoTime
    /\ order.shipped_at \notin {NoTime, order.confirmed_at}
    /\ order.delivered_at \notin {NoTime, order.shipped_at}
    /\ call.op \in {"ship", "confirm"}
    /\ ~call.ok


(***************************************************************************)
(* Claims about the requests, under Spec.  dbVars are the committed rows:  *)
(* the state that is persisted and that other requests read.               *)
(***************************************************************************)
\* Request r takes a step: each of its steps moves its position.
Acts(r) == Active(r) /\ sess'[r].pc # sess[r].pc

\* The route of request r has returned without an exception.
Succeeded(r) == Active(r) /\ sess[r].pc = "exit" /\ sess[r].raised = ""

\* C1: of two concurrent add_item_to_order calls for the same product that
\* read the same availability, each asking for a quantity that is available
\* on its own but not together with the other's, at most one succeeds (the
\* other fails with InsufficientStock): the two never both succeed.
C1_NoOverReservation ==
    \A b \in Slots :
        (Succeeded(b) /\ sess[b].op = "add_item_to_order") =>
            \A a \in sess[b].met :
                ~ /\ a.op = "add_item_to_order"
                  /\ a.product_id = sess[b].product_id
                  /\ a.avail = sess[b].avail
                  /\ a.quantity <= a.avail
                  /\ sess[b].quantity <= a.avail
                  /\ a.quantity + sess[b].quantity > a.avail

\* C2: when a request of add_item_to_order ends, by commit, rollback or
\* crash, the committed order has gained the new item if and only if the
\* committed quantity_reserved of the product has grown by the item's
\* quantity.
C2_ItemIffReserved ==
    [][\A r \in Slots :
          (Active(r) /\ sess[r].op = "add_item_to_order" /\ ~Active(r)') =>
              LET s == sess[r]
                  p == s.product_id
                  item == [id |-> s.rid, order_id |-> s.order_id,
                           product_id |-> p, quantity |-> s.quantity]
              IN  IF p \in DOMAIN dbInv
                  THEN item \in dbItems' <=>
                           dbInv'[p].quantity_reserved =
                               dbInv[p].quantity_reserved + s.quantity
                  ELSE item \notin dbItems']_vars

\* C3: two create_order calls for the same organization that run at the
\* same time never hold the same order_number.
C3_DistinctOrderNumbers ==
    \A a, b \in Slots :
        (/\ a # b
         /\ Active(a) /\ sess[a].op = "create_order" /\ sess[a].pc # "generate"
         /\ Active(b) /\ sess[b].op = "create_order" /\ sess[b].pc # "generate"
         /\ sess[a].organization_id = sess[b].organization_id)
            => sess[a].ord.order_number # sess[b].ord.order_number

RECURSIVE TotalMoved(_)
TotalMoved(rows) ==
    IF rows = {} THEN 0
    ELSE LET row == CHOOSE x \in rows : TRUE
         IN  row.quantity + TotalMoved(rows \ {row})

\* C4: no update of the stock is lost.  Every serial order of the committed
\* receive_stock, adjust_stock and sell_stock calls leaves quantity_on_hand
\* at its first value plus the quantities of their StockMovements, so the
\* committed quantity_on_hand is that sum.
C4_NoLostUpdate ==
    \A p \in DOMAIN dbInv :
        dbInv[p].quantity_on_hand =
            InitialStock
                + TotalMoved({m \in dbMoves : m.inventory_item_id = p})

\* The stock columns of inventory_items that request r has written in its
\* transaction.
StockWritten(r) ==
    {c \in {"quantity_on_hand", "quantity_reserved"} :
        \E p \in DOMAIN sess[r].wInv : c \in DOMAIN sess[r].wInv[p]}

\* C5: a cancel_order that fails because the order is not cancellable has
\* changed nothing: it has reduced no quantity_reserved and has written
\* nothing of the order.
C5_FailedCancelChangesNothing ==
    \A r \in Slots :
        (/\ Active(r)
         /\ sess[r].op = "cancel_order"
         /\ sess[r].raised = "InvalidTransition")
            => /\ "quantity_reserved" \notin StockWritten(r)
               /\ sess[r].wOrd = Empty
               /\ sess[r].wItems = {}

\* C6: a ship_order that fails, because the order is not CONFIRMED or
\* PROCESSING or because sell_stock raises InsufficientStock for an item, has
\* changed nothing: it has decremented no quantity_on_hand or
\* quantity_reserved, recorded no StockMovement and written nothing of the
\* order, whatever items it processed before the failure.
C6_FailedShipChangesNothing ==
    \A r \in Slots :
        (/\ Active(r)
         /\ sess[r].op = "ship_order"
         /\ sess[r].raised \in {"InvalidTransition", "InsufficientStock"})
            => /\ StockWritten(r) = {}
               /\ sess[r].wMoves = {}
               /\ sess[r].wOrd = Empty

\* What get_session adds to C2, C5 and C6: a request changes the committed
\* rows only by the commit that follows the return of its route; a request
\* that raises, is cancelled or dies commits nothing of what it flushed.
OnlySuccessCommits ==
    [][\A r \in Slots : (Acts(r) /\ ~Succeeded(r)) => UNCHANGED dbVars]_vars


(***************************************************************************)
(* Claims about the InventoryItem entity, checked under SpecStock.  The    *)
(* errors are all ValueError in the source; err names the one raised by    *)
(* its message: "InvalidQuantity" is "Quantity must be positive",          *)
(* "InsufficientStock" is "Insufficient stock..." and "NegativeStock" is   *)
(* "Adjustment would result in negative stock".                            *)
(***************************************************************************)
LastCall == stockCalls[Len(stockCalls)]

Did(op) == stockCalls # <<>> /\ LastCall.op = op

SameCounters(a, b) ==
    /\ a.quantity_on_hand = b.quantity_on_hand
    /\ a.quantity_reserved = b.quantity_reserved

\* C11: reserve_stock(qty) with qty > 0 fails with InsufficientStock whenever
\* qty > quantity_available and then leaves quantity_reserved and
\* quantity_on_hand unchanged; otherwise it increases quantity_reserved by
\* exactly qty, leaves quantity_on_hand unchanged and lowers
\* quantity_available by qty.
C11_ReserveStock ==
    (Did("reserve_stock") /\ LastCall.quantity > 0) =>
        LET c == LastCall
        IN  IF c.quantity > quantity_available(c.pre)
            THEN /\ ~c.ok
                 /\ c.err = "InsufficientStock"
                 /\ SameCounters(c.post, c.pre)
            ELSE /\ c.ok
                 /\ c.post.quantity_reserved = c.pre.quantity_reserved + c.quantity
                 /\ c.post.quantity_on_hand = c.pre.quantity_on_hand
                 /\ quantity_available(c.post) =
                        quantity_available(c.pre) - c.quantity

\* A reservation made on an item that already held one.
C11_Witness ==
    /\ Did("reserve_stock")
    /\ LastCall.ok
    /\ LastCall.pre.quantity_reserved > 0
    /\ quantity_available(LastCall.post) > 0


\* C12: for every InventoryItem that starts with quantity_reserved <=
\* quantity_on_hand, quantity_reserved never exceeds quantity_on_hand after any
\* sequence of reserve_stock, release_reservation, sell_stock, receive_stock
\* and adjust_stock calls, so that quantity_available never needs its clamp.
C12_ReservedWithinOnHand ==
    inventory_item.quantity_reserved <= inventory_item.quantity_on_hand

\* What does hold: only adjust_stock takes quantity_on_hand below
\* quantity_reserved.
ReservedWithinOnHandButAdjust ==
    stockCalls # <<>> =>
        ((/\ LastCall.pre.quantity_reserved <= LastCall.pre.quantity_on_hand
          /\ LastCall.op # "adjust_stock")
            => LastCall.post.quantity_reserved <= LastCall.post.quantity_on_hand)

\* C13: after any sequence of reserve/release/sell/receive/adjust calls,
\* successful or failing, quantity_on_hand >= 0 and quantity_reserved >= 0
\* hold and quantity_available equals max(0, on_hand - reserved);
\* release_reservation of more than is reserved sets quantity_reserved to 0
\* instead of failing or going negative.
C13_CountersNeverNegative ==
    /\ inventory_item.quantity_on_hand >= 0
    /\ inventory_item.quantity_reserved >= 0
    /\ LET free == inventory_item.quantity_on_hand - inventory_item.quantity_reserved
       IN  quantity_available(inventory_item) = (IF free > 0 THEN free ELSE 0)
    /\ (/\ Did("release_reservation")
        /\ LastCall.quantity > 0
        /\ LastCall.quantity > LastCall.pre.quantity_reserved)
          => (/\ LastCall.ok
              /\ LastCall.post.quantity_reserved = 0
              /\ LastCall.post.quantity_on_hand = LastCall.pre.quantity_on_hand)

\* A release of more than the item held in reservation.
C13_Witness ==
    /\ Did("release_reservation")
    /\ LastCall.pre.quantity_reserved > 0
    /\ LastCall.quantity > LastCall.pre.quantity_reserved

\* The last two calls were op1(q) and then op2(q), made one after the other
\* with the same quantity.
Consecutive(op1, op2) ==
    /\ Len(stockCalls) = 2
    /\ stockCalls[1].op = op1
    /\ stockCalls[2].op = op2
    /\ stockCalls[1].quantity = stockCalls[2].quantity

\* C14: for every state and every qty for which reserve_stock(qty) succeeds,
\* reserve_stock(qty) followed immediately by release_reservation(qty)
\* restores quantity_reserved to its prior value and leaves quantity_on_hand
\* unchanged; release_reservation(qty) from a reservation smaller than qty
\* followed by a successful reserve_stock(qty) does not restore it, because
\* release clamps at 0.
C14_ReleaseUndoesReserve ==
    /\ (Consecutive("reserve_stock", "release_reservation") /\ stockCalls[1].ok)
          => (/\ stockCalls[2].ok
              /\ SameCounters(stockCalls[2].post, stockCalls[1].pre))
    /\ (/\ Consecutive("release_reservation", "reserve_stock")
        /\ stockCalls[1].ok
        /\ stockCalls[1].pre.quantity_reserved < stockCalls[1].quantity
        /\ stockCalls[2].ok)
          => (/\ stockCalls[2].post.quantity_reserved = stockCalls[2].quantity
              /\ stockCalls[2].post.quantity_reserved
                    # stockCalls[1].pre.quantity_reserved)

\* A reservation on top of an earlier one, released again at once.
C14_Witness ==
    /\ Consecutive("reserve_stock", "release_reservation")
    /\ stockCalls[1].ok
    /\ stockCalls[1].pre.quantity_reserved > 0
    /\ stockCalls[2].post.quantity_reserved = stockCalls[1].pre.quantity_reserved

\* The reverse order on a reservation smaller than the quantity.
ReserveAfterClampedRelease ==
    /\ Consecutive("release_reservation", "reserve_stock")
    /\ stockCalls[1].pre.quantity_reserved > 0
    /\ stockCalls[1].pre.quantity_reserved < stockCalls[1].quantity
    /\ stockCalls[2].ok

\* C15: sell_stock(qty) with qty > 0 fails with InsufficientStock when
\* qty > quantity_on_hand and then changes nothing; otherwise it decreases
\* quantity_on_hand by exactly qty, decreases quantity_reserved by qty clamped
\* at 0, and returns a StockMovement with movement_type SALE, quantity = -qty
\* and quantity_after = the new quantity_on_hand.
C15_SellStock ==
    (Did("sell_stock") /\ LastCall.quantity > 0) =>
        LET c == LastCall
        IN  IF c.quantity > c.pre.quantity_on_hand
            THEN /\ ~c.ok
                 /\ c.err = "InsufficientStock"
                 /\ c.post = c.pre
                 /\ c.mv = NoMovement
            ELSE /\ c.ok
                 /\ c.post.quantity_on_hand = c.pre.quantity_on_hand - c.quantity
                 /\ c.post.quantity_reserved =
                        (IF c.pre.quantity_reserved > c.quantity
                         THEN c.pre.quantity_reserved - c.quantity ELSE 0)
                 /\ c.mv.movement_type = "sale"
                 /\ c.mv.quantity = 0 - c.quantity
                 /\ c.mv.quantity_after = c.post.quantity_on_hand

\* A sale of less than is reserved, from an item with stock left afterwards.
C15_Witness ==
    /\ Did("sell_stock")
    /\ LastCall.ok
    /\ LastCall.pre.quantity_reserved > LastCall.quantity
    /\ LastCall.post.quantity_on_hand > 0

\* C16: receive_stock(qty, reference) with qty > 0 always succeeds, increases
\* quantity_on_hand by exactly qty, leaves quantity_reserved unchanged and
\* returns a StockMovement with movement_type PURCHASE, quantity = +qty and
\* quantity_after = the new quantity_on_hand.
C16_ReceiveStock ==
    (Did("receive_stock") /\ LastCall.quantity > 0) =>
        LET c == LastCall
        IN  /\ c.ok
            /\ c.post.quantity_on_hand = c.pre.quantity_on_hand + c.quantity
            /\ c.post.quantity_reserved = c.pre.quantity_reserved
            /\ c.mv.movement_type = "purchase"
            /\ c.mv.quantity = c.quantity
            /\ c.mv.reference = PurchaseOrder
            /\ c.mv.quantity_after = c.post.quantity_on_hand

\* A receipt on an item that holds stock and a reservation.
C16_Witness ==
    /\ Did("receive_stock")
    /\ LastCall.ok
    /\ LastCall.pre.quantity_on_hand > 0
    /\ LastCall.pre.quantity_reserved > 0

\* C17: adjust_stock(delta, reason) fails with NegativeStock when
\* quantity_on_hand + delta < 0 and then leaves quantity_on_hand unchanged and
\* emits no movement; otherwise it sets quantity_on_hand to
\* quantity_on_hand + delta (delta positive, zero or negative), leaves
\* quantity_reserved unchanged and returns a movement with quantity = delta
\* and quantity_after = the new quantity_on_hand.
C17_AdjustStock ==
    Did("adjust_stock") =>
        LET c == LastCall
        IN  IF c.pre.quantity_on_hand + c.quantity < 0
            THEN /\ ~c.ok
                 /\ c.err = "NegativeStock"
                 /\ c.post = c.pre
                 /\ c.mv = NoMovement
            ELSE /\ c.ok
                 /\ c.post.quantity_on_hand = c.pre.quantity_on_hand + c.quantity
                 /\ c.post.quantity_reserved = c.pre.quantity_reserved
                 /\ c.mv.movement_type = "adjustment"
                 /\ c.mv.quantity = c.quantity
                 /\ c.mv.quantity_after = c.post.quantity_on_hand

\* An adjustment below zero, refused.
C17_Witness ==
    /\ Did("adjust_stock")
    /\ LastCall.pre.quantity_on_hand + LastCall.quantity < 0
    /\ ~LastCall.ok

\* C18: receive_stock, reserve_stock, release_reservation and sell_stock each
\* reject every quantity <= 0 with an InvalidQuantity error and leave
\* quantity_on_hand and quantity_reserved unchanged; only adjust_stock accepts
\* zero or negative amounts.
C18_QuantityMustBePositive ==
    stockCalls # <<>> =>
        LET c == LastCall
        IN  /\ (c.op # "adjust_stock" /\ c.quantity <= 0)
                  => (/\ ~c.ok
                      /\ c.err = "InvalidQuantity"
                      /\ SameCounters(c.post, c.pre))
            /\ (c.ok /\ c.quantity <= 0) => c.op = "adjust_stock"
            /\ (/\ c.op = "adjust_stock"
                /\ c.quantity <= 0
                /\ c.pre.quantity_on_hand + c.quantity >= 0) => c.ok

\* A receipt of a negative quantity, refused.
C18_Witness ==
    /\ Did("receive_stock")
    /\ LastCall.quantity < 0
    /\ ~LastCall.ok
    /\ LastCall.pre.quantity_on_hand > 0

\* Request r, of the given service method, has returned and its transaction
\* is committed.
Commits(r, op) ==
    /\ Succeeded(r)
    /\ sess[r].op = op
    /\ ~Active(r)'
    /\ Commit(sess[r])

\* The total quantity of the committed items of order oid for product p.
QuantityOf(rows, oid, p) ==
    TotalQuantity(ItemList({x \in rows : x.order_id = oid /\ x.product_id = p}))

\* C19: cancel_order on a cancellable order releases every item's quantity
\* from the quantity_reserved of its InventoryItem and only then marks the
\* order CANCELLED: the order never is CANCELLED in the database while one
\* of its reservations is still held, and when the call has succeeded the
\* order is CANCELLED and the quantity_reserved of each InventoryItem it
\* refers to is lower by the order's quantity for it, clamped at 0.
C19_CancelReleasesThenCancels ==
    [][\A r \in Slots :
          Commits(r, "cancel_order") =>
              LET oid == sess[r].order_id
              IN  /\ dbOrders'[oid].status = "cancelled"
                  /\ \A p \in Products :
                        dbInv'[p].quantity_reserved =
                            Max(0, dbInv[p].quantity_reserved
                                      - QuantityOf(dbItems', oid, p))]_vars

\* The items a cancel_order released are the items the order has when the
\* cancellation is committed.
CancelReleasesEveryItem ==
    [][\A r \in Slots :
          Commits(r, "cancel_order") =>
              \A p \in Products :
                  QuantityOf(dbItems', sess[r].order_id, p)
                      = QuantityOf(ItemRows(sess[r].ord), sess[r].order_id, p)]_vars

\* The committed items of order oid with the given quantity.
ItemsOf(rows, oid, q) == {x \in rows : x.order_id = oid /\ x.quantity = q}

\* The committed SALE movements that refer to order oid.
SalesOf(rows, oid) ==
    {m \in rows : m.movement_type = "sale" /\ m.reference = str(oid)}

\* C20: a successful ship_order reduces, for every item, the quantity_on_hand
\* and the quantity_reserved of the item's InventoryItem by the item's
\* quantity (quantity_reserved clamped at 0) and records exactly one SALE
\* StockMovement with quantity = -item.quantity and the order id as its
\* reference, and the order becomes SHIPPED, with shipped_at set, only
\* after all items are processed: the sales and the status are committed
\* together.
C20_ShipSellsThenShips ==
    [][\A r \in Slots :
          Commits(r, "ship_order") =>
              LET oid == sess[r].order_id
              IN  /\ dbOrders'[oid].status = "shipped"
                  /\ dbOrders'[oid].shipped_at # NoTime
                  /\ dbOrders[oid].status # "shipped"
                  /\ \A p \in Products :
                        LET sold == QuantityOf(dbItems', oid, p)
                        IN  /\ dbInv'[p].quantity_on_hand =
                                  dbInv[p].quantity_on_hand - sold
                            /\ dbInv'[p].quantity_reserved =
                                  Max(0, dbInv[p].quantity_reserved - sold)
                  /\ SalesOf(dbMoves, oid) = {}
                  /\ \A q \in 1..MaxQty :
                        Cardinality({m \in SalesOf(dbMoves', oid) : m.quantity = 0 - q})
                            = Cardinality(ItemsOf(dbItems', oid, q))]_vars

\* An order is sold once: it never has more SALE movements than items.
ShippedOnce ==
    \A oid \in DOMAIN dbOrders :
        Cardinality(SalesOf(dbMoves, oid))
            <= Cardinality({x \in dbItems : x.order_id = oid})

\* C21: whenever add_item_to_order fails, because the order is missing
\* (NotFound), the product is missing (NotFound), the quantity is greater
\* than quantity_available (InsufficientStock) or the order is not in a
\* modifiable status, it has changed neither the items of the order nor the
\* quantity_reserved or quantity_on_hand of any InventoryItem: nothing is
\* written in its transaction and the order it loaded is as it was loaded.
C21_FailedAddItemChangesNothing ==
    \A r \in Slots :
        (/\ Active(r)
         /\ sess[r].op = "add_item_to_order"
         /\ sess[r].raised # "")
            => /\ sess[r].raised \in {"NotFound", "InsufficientStock", "NotModifiable"}
               /\ sess[r].wInv = Empty
               /\ sess[r].wOrd = Empty
               /\ sess[r].wItems = {}
               /\ sess[r].wMoves = {}
               /\ sess[r].ord = sess[r].ord0
               /\ sess[r].inv = NoItem

\* An add_item_to_order refused on an order that is not modifiable, for a
\* quantity that was available.
C21_Witness ==
    \E r \in Slots :
        /\ Active(r)
        /\ sess[r].op = "add_item_to_order"
        /\ sess[r].raised = "NotModifiable"
        /\ sess[r].quantity <= sess[r].avail

\* An add_item_to_order refused because the product does not exist.
AddItemOfMissingProduct ==
    \E r \in Slots :
        /\ Active(r)
        /\ sess[r].op = "add_item_to_order"
        /\ sess[r].raised = "NotFound"
        /\ sess[r].ord # NoOrder

(***************************************************************************)
(* Claims about the service calls executed one at a time, under SpecSerial. *)
(***************************************************************************)
\* The orders of an organization that are stored.
OrdersOf(org) == {o \in DOMAIN dbOrders : dbOrders[o].organization_id = org}

\* C22: create_order gives every order a unique order_number: after any
\* sequence of create_order calls, executed one at a time for one or several
\* organizations, no two stored orders share an order_number, and within one
\* organization the sequence part of the number is 1 for the first order and
\* increases by one with each further order: every create_order succeeds,
\* with the number of orders of its organization plus one.
C22_UniqueSequentialNumbers ==
    /\ \A a, b \in DOMAIN dbOrders :
          a # b => dbOrders[a].order_number # dbOrders[b].order_number
    /\ \A r \in Slots :
          (Active(r) /\ sess[r].op = "create_order") =>
              /\ sess[r].raised = ""
              /\ sess[r].pc # "generate" =>
                    sess[r].ord.order_number[2] =
                        Cardinality(OrdersOf(sess[r].organization_id)) + 1

\* What does hold: the stored numbers are distinct, and a create_order that
\* succeeds has given the next number of its organization.
StoredNumbersDistinct ==
    /\ \A a, b \in DOMAIN dbOrders :
          a # b => dbOrders[a].order_number # dbOrders[b].order_number
    /\ \A r \in Slots :
          (Active(r) /\ sess[r].op = "create_order" /\ sess[r].pc # "generate") =>
              sess[r].ord.order_number[2] =
                  Cardinality(OrdersOf(sess[r].organization_id)) + 1

(***************************************************************************)
(* Claims about the totals of an Order, under SpecTotals.                  *)
(***************************************************************************)
\* The sum of subtotal - discount_amount + tax_amount over the first n items.
RECURSIVE LinesTotal(_, _)
LinesTotal(items, n) ==
    IF n = 0 THEN 0
    ELSE LinesTotal(items, n - 1)
            + (items[n].unit_price * items[n].quantity
                 - discount_amount(items[n]) + tax_amount(items[n]))

\* C23: for every Order and every state of its items, grand_total equals the
\* sum of item.total over the current items plus shipping_cost plus
\* handling_fee (0 for an empty order with no charges), where item.total =
\* subtotal - discount_amount + tax_amount with subtotal = unit_price x
\* quantity; it is recomputed on every read, so two reads without a mutation
\* between them return the same value and a read after add_item or
\* remove_item reflects the change.
C23_GrandTotal ==
    LET expected == LinesTotal(order.items, Len(order.items))
                       + order.shipping_cost + order.handling_fee
    IN  /\ grand_total(order) = expected
        /\ (/\ order.items = <<>>
            /\ order.shipping_cost = 0
            /\ order.handling_fee = 0) => grand_total(order) = 0
        /\ call.op \in {"grand_total", "grand_total again"} => call.read = expected
        /\ call.op = "grand_total again" => call.read = call.last

\* A second read of the total of an order with charges and two items, one
\* of them discounted and taxed.
C23_Witness ==
    /\ call.op = "grand_total again"
    /\ Len(order.items) = 2
    /\ order.shipping_cost > 0
    /\ order.handling_fee > 0
    /\ \E i \in 1..2 : /\ order.items[i].discount_percent > 0
                       /\ order.items[i].tax_percent > 0

(***************************************************************************)
(* Claims about the User entity, under SpecUser, and about the login       *)
(* route, under SpecLogin.                                                 *)
(***************************************************************************)
\* C24: after any sequence of record_failed_login and
\* record_successful_login calls on a User, locked_until is set exactly when
\* at least 5 failed attempts were recorded since the last successful login:
\* the account is not locked after 4 consecutive failures, it is locked
\* after the 5th, and record_successful_login resets failed_login_attempts
\* to 0 and clears the lock.
C24_LockedAfterFiveFailures ==
    /\ (user.locked_until # NoTime) <=> (userCalls.failures >= 5)
    /\ user.failed_login_attempts = userCalls.failures
    /\ userCalls.failures = 4 => ~is_locked(user, userCalls.at)
    /\ (userCalls.op = "record_failed_login" /\ userCalls.failures >= 5)
          => is_locked(user, userCalls.at)
    /\ userCalls.op = "record_successful_login"
          => (/\ user.failed_login_attempts = 0
              /\ user.locked_until = NoTime
              /\ ~is_locked(user, clock))

\* The fifth failure in a row, after an earlier successful login.
C24_Witness ==
    /\ userCalls.op = "record_failed_login"
    /\ userCalls.failures = 5
    /\ user.last_login_at # NoTime
    /\ is_locked(user, clock)

\* C29: a login request with a wrong password for an existing, active,
\* unlocked user saves the failed attempt: the incremented
\* failed_login_attempts, and the lock set at the 5th failure, is committed
\* although the request ends with a 401 error, so that after five
\* consecutive wrong-password login requests the stored user is locked and a
\* further login request, even with the right password, is rejected as
\* temporarily locked.  loginLog.wrong counts these requests.
C29_FailedAttemptSaved ==
    /\ dbUser.failed_login_attempts = loginLog.wrong
    /\ loginLog.wrong >= 5 => dbUser.locked_until # NoTime
    /\ (/\ loginLog.wrong >= 5
        /\ login.pc = "exit"
        /\ clock < dbUser.locked_until)
          => (login.status = 401 /\ login.detail = "Account is temporarily locked")

\* What the code does: no failed attempt is ever stored, so that the stored
\* user is never locked, whatever the number of wrong passwords.
FailedAttemptNeverStored ==
    /\ dbUser.failed_login_attempts = 0
    /\ dbUser.locked_until = NoTime

\* The right password is accepted after six requests with a wrong one.
LoginAfterSixWrongPasswords ==
    /\ loginLog.wrong >= 6
    /\ login.pc = "exit"
    /\ login.status = 200

\* The statuses in which an order holds the reservation of its items.
Holding == {"draft", "pending", "confirmed", "processing"}

\* The quantity the stored orders that hold a reservation have of product p.
Held(p) ==
    TotalQuantity(ItemList({x \in dbItems :
        /\ x.product_id = p
        /\ dbOrders[x.order_id].status \in Holding}))

\* C25: after any sequence of OrderService calls executed one at a time
\* (create_order, add_item_to_order, submit_order, confirm_order,
\* cancel_order, ship_order, each succeeding or failing), the
\* quantity_reserved of every InventoryItem equals the sum of the quantities
\* of the order items that refer to it in orders whose status is DRAFT,
\* PENDING, CONFIRMED or PROCESSING; orders that are SHIPPED, DELIVERED or
\* CANCELLED hold no reservation.
C25_ReservationConservation ==
    \A p \in DOMAIN dbInv : dbInv[p].quantity_reserved = Held(p)

\* A shipped order and a cancelled order with items, next to an order that
\* still holds a reservation.
C25_Witness ==
    /\ \E o \in DOMAIN dbOrders :
          /\ dbOrders[o].status \in {"shipped", "cancelled"}
          /\ dbOrders[o].updated_at > 0
          /\ \E x \in dbItems : x.order_id = o
    /\ \E o \in DOMAIN dbOrders :
          /\ dbOrders[o].status \in {"draft", "pending"}
          /\ \E x \in dbItems : x.order_id = o
    /\ dbInv[1].quantity_reserved > 0

\* C26: for every InventoryItem, after any sequence of receive_stock,
\* sell_stock, adjust_stock, reserve_stock and release_reservation calls,
\* quantity_on_hand equals its first value plus the sum of the quantity
\* fields of all StockMovements emitted for it; the quantity_after of each
\* movement is >= 0 and equals quantity_on_hand right after the operation
\* that emitted it; reserve_stock and release_reservation emit no movement
\* and leave quantity_on_hand unchanged.
C26_MovementsAccountForStock ==
    /\ inventory_item.quantity_on_hand = stockLog.first + stockLog.moved
    /\ stockCalls # <<>> =>
          LET c == LastCall
          IN  /\ c.mv # NoMovement =>
                    (/\ c.mv.quantity_after >= 0
                     /\ c.mv.quantity_after = c.post.quantity_on_hand
                     /\ c.mv.inventory_item_id = c.post.id)
              /\ c.op \in {"reserve_stock", "release_reservation"} =>
                    (/\ c.mv = NoMovement
                     /\ c.post.quantity_on_hand = c.pre.quantity_on_hand)
              /\ (c.ok /\ c.op \in {"receive_stock", "sell_stock", "adjust_stock"})
                    => c.mv # NoMovement

\* A sale after a receipt or an adjustment: two movements that add up.
C26_Witness ==
    /\ Len(stockCalls) = 2
    /\ stockCalls[1].op \in {"receive_stock", "adjust_stock"}
    /\ stockCalls[1].mv # NoMovement
    /\ stockCalls[1].mv.quantity # 0
    /\ stockCalls[2].op = "sell_stock"
    /\ stockCalls[2].mv # NoMovement
    /\ stockLog.moved # 0

\* C27: for an order that starts in DRAFT, after any sequence of add_item,
\* remove_item, submit, confirm, cancel, ship and deliver calls, whenever
\* the status is CONFIRMED, PROCESSING, SHIPPED or DELIVERED the order has
\* at least one item: the last item can be removed only while the order is
\* DRAFT or PENDING, and a PENDING order without items cannot be confirmed.
C27_ConfirmedOrderHasItems ==
    status0 = "draft" =>
        /\ order.status \in {"confirmed", "processing", "shipped", "delivered"}
              => order.items # <<>>
        /\ (call.op # "none" /\ call.pre.items # <<>> /\ order.items = <<>>)
              => (/\ call.op = "remove_item"
                  /\ call.pre.status \in {"draft", "pending"}
                  /\ order.status = call.pre.status)
        /\ (call.op = "confirm" /\ call.pre.items = <<>>)
              => (~call.ok /\ order = call.pre)

\* A DRAFT order was submitted, lost its last item and was then refused by confirm.
C27_Witness ==
    /\ status0 = "draft"
    /\ call.op = "confirm"
    /\ call.pre.status = "pending"
    /\ call.pre.items = <<>>
    /\ call.err = "EmptyOrder"
    /\ order.status = "pending"

\* An order that started in DRAFT is delivered, with its items.
DraftOrderDelivered ==
    /\ status0 = "draft"
    /\ order.status = "delivered"
    /\ order.items # <<>>

\* C28: add_item_to_order only ever adds and reserves an InventoryItem of the
\* organization of the order: no stored order contains an item whose
\* product's organization_id differs from the order's organization_id, so
\* the quantity_reserved of an organization's InventoryItem is never changed
\* by an order of another organization.
C28_TenantIsolation ==
    \A x \in dbItems :
        x.product_id \in DOMAIN dbInv =>
            dbInv[x.product_id].organization_id
                = dbOrders[x.order_id].organization_id

\* An order of organization 2 holds a reservation on a product of organization 1.
ReservedAcrossTenants ==
    \E x \in dbItems :
        /\ dbOrders[x.order_id].organization_id = 2
        /\ dbInv[x.product_id].organization_id = 1
        /\ dbInv[x.product_id].quantity_reserved >= x.quantity

(***************************************************************************)
(* SpecLowStock: GET /inventory/low-stock (routes/inventory.py:206-218)    *)
(* and InventoryRepository.get_low_stock_items                             *)
(* (inventory_repository.py:136-151) over a table of two rows.             *)
(***************************************************************************)
Levels == 0..MaxLevel

\* The rows of one inventory_items table: row 1 of organization 1, row 2 of
\* either organization.
StockTables ==
    {<<StockRow(1, 1, a1, t1, h1, r1, p1), StockRow(2, org2, a2, t2, h2, r2, p2)>> :
        org2 \in Tenants, a1 \in BOOLEAN, t1 \in BOOLEAN, a2 \in BOOLEAN,
        t2 \in BOOLEAN, h1 \in Levels, r1 \in Levels, p1 \in Levels,
        h2 \in Levels, r2 \in Levels, p2 \in Levels}

\* The WHERE clause of get_low_stock_items, and _to_entity of each row found.
get_low_stock_items(rows, organization_id) ==
    {rows[i] : i \in {j \in DOMAIN rows :
        /\ rows[j].organization_id = organization_id
        /\ rows[j].is_active = TRUE
        /\ rows[j].is_trackable = TRUE
        /\ rows[j].quantity_on_hand <= rows[j].reorder_point}}

InitLowStock ==
    /\ order = NewOrder("draft", <<>>)
    /\ status0 = "draft"
    /\ clock = 1
    /\ call = NoCall
    /\ confirmed = FALSE
    /\ NoRequests
    /\ NoStockCalls
    /\ NoLogins
    /\ invRows \in StockTables
    /\ lowStock = NoQuery

\* One low-stock query for an organization.
QueryLowStock ==
    \E org \in Tenants :
        /\ lowStock' = [asked |-> TRUE, organization_id |-> org,
                        items |-> get_low_stock_items(invRows, org)]
        /\ UNCHANGED <<orderVars, svcVars, stockVars, userVars, invRows>>

NextLowStock == QueryLowStock

SpecLowStock == InitLowStock /\ [][NextLowStock]_vars

\* The rows of an organization that are active, trackable and need reordering.
NeedReorder(org) ==
    {invRows[i] : i \in {j \in DOMAIN invRows :
        /\ invRows[j].organization_id = org
        /\ invRows[j].is_active
        /\ invRows[j].is_trackable
        /\ needs_reorder(invRows[j])}}

\* C30: the low-stock query returns exactly the organization's active,
\* trackable items whose needs_reorder is true, that is whose
\* quantity_available = max(0, quantity_on_hand - quantity_reserved) is at
\* most reorder_point, also when part of the quantity on hand is reserved.
C30_LowStockIsNeedsReorder ==
    lowStock.asked => lowStock.items = NeedReorder(lowStock.organization_id)

\* What the query returns is judged by quantity_on_hand: every item returned
\* needs reordering, and every item missed has more on hand than its
\* reorder_point.
LowStockJudgedByOnHand ==
    lowStock.asked =>
        /\ lowStock.items \subseteq NeedReorder(lowStock.organization_id)
        /\ \A i \in NeedReorder(lowStock.organization_id) \ lowStock.items :
              /\ i.quantity_on_hand > i.reorder_point
              /\ i.quantity_reserved > 0

\* An item with part of its stock reserved needs reordering and is not returned.
ReservedItemMissed ==
    /\ lowStock.asked
    /\ \E i \in NeedReorder(lowStock.organization_id) \ lowStock.items :
          /\ i.quantity_reserved > 0
          /\ i.quantity_reserved < i.quantity_on_hand
=============================================================================
